---- MODULE Spec2Model ----
\* A model of nokernelspace/packs: the ResourceLocation value type
\* (src/lib/resource_location.py) and the beet_default build plugin
\* (src/beet_plugins/main.py).
\*
\* Python strings are sequences of one-character strings, so that partition,
\* split, join and the two regular expressions are computed character by
\* character.  An instance is its __dict__: a function from attribute names
\* (strings as well) to values.
EXTENDS Integers, Sequences, FiniteSets, TLC

\* ---------------------------------------------------------------- bounds

\* Longest constructor input (base) drawn in Init.
MaxLen == 3

\* Most entries of a file tree drawn in InitBuild.
MaxPacks == 2

\* ------------------------------------------------------------ characters

LOWER ==
    {"a","b","c","d","e","f","g","h","i","j","k","l","m",
     "n","o","p","q","r","s","t","u","v","w","x","y","z"}

\* The character class [0-9].
DIGIT ==
    {"0","1","2","3","4","5","6","7","8","9"}

\* The character class \d of a str pattern compiled without re.ASCII: the
\* decimal digits of Unicode (category Nd), [0-9] among them.  A character
\* outside ASCII is written as the name of its code point, "U+0661" being
\* ARABIC-INDIC DIGIT ONE: one character, as every element of a string is.
UNICODE_DIGIT ==
    DIGIT \cup
    {"U+0660","U+0661","U+0662","U+0663","U+0664","U+0665",
     "U+0666","U+0667","U+0668","U+0669","U+06F0","U+06F1",
     "U+06F2","U+06F3","U+06F4","U+06F5","U+06F6","U+06F7",
     "U+06F8","U+06F9","U+07C0","U+07C1","U+07C2","U+07C3",
     "U+07C4","U+07C5","U+07C6","U+07C7","U+07C8","U+07C9",
     "U+0966","U+0967","U+0968","U+0969","U+096A","U+096B",
     "U+096C","U+096D","U+096E","U+096F","U+09E6","U+09E7",
     "U+09E8","U+09E9","U+09EA","U+09EB","U+09EC","U+09ED",
     "U+09EE","U+09EF","U+0A66","U+0A67","U+0A68","U+0A69",
     "U+0A6A","U+0A6B","U+0A6C","U+0A6D","U+0A6E","U+0A6F",
     "U+0AE6","U+0AE7","U+0AE8","U+0AE9","U+0AEA","U+0AEB",
     "U+0AEC","U+0AED","U+0AEE","U+0AEF","U+0B66","U+0B67",
     "U+0B68","U+0B69","U+0B6A","U+0B6B","U+0B6C","U+0B6D",
     "U+0B6E","U+0B6F","U+0BE6","U+0BE7","U+0BE8","U+0BE9",
     "U+0BEA","U+0BEB","U+0BEC","U+0BED","U+0BEE","U+0BEF",
     "U+0C66","U+0C67","U+0C68","U+0C69","U+0C6A","U+0C6B",
     "U+0C6C","U+0C6D","U+0C6E","U+0C6F","U+0CE6","U+0CE7",
     "U+0CE8","U+0CE9","U+0CEA","U+0CEB","U+0CEC","U+0CED",
     "U+0CEE","U+0CEF","U+0D66","U+0D67","U+0D68","U+0D69",
     "U+0D6A","U+0D6B","U+0D6C","U+0D6D","U+0D6E","U+0D6F",
     "U+0DE6","U+0DE7","U+0DE8","U+0DE9","U+0DEA","U+0DEB",
     "U+0DEC","U+0DED","U+0DEE","U+0DEF","U+0E50","U+0E51",
     "U+0E52","U+0E53","U+0E54","U+0E55","U+0E56","U+0E57",
     "U+0E58","U+0E59","U+0ED0","U+0ED1","U+0ED2","U+0ED3",
     "U+0ED4","U+0ED5","U+0ED6","U+0ED7","U+0ED8","U+0ED9",
     "U+0F20","U+0F21","U+0F22","U+0F23","U+0F24","U+0F25",
     "U+0F26","U+0F27","U+0F28","U+0F29","U+1040","U+1041",
     "U+1042","U+1043","U+1044","U+1045","U+1046","U+1047",
     "U+1048","U+1049","U+1090","U+1091","U+1092","U+1093",
     "U+1094","U+1095","U+1096","U+1097","U+1098","U+1099",
     "U+17E0","U+17E1","U+17E2","U+17E3","U+17E4","U+17E5",
     "U+17E6","U+17E7","U+17E8","U+17E9","U+1810","U+1811",
     "U+1812","U+1813","U+1814","U+1815","U+1816","U+1817",
     "U+1818","U+1819","U+1946","U+1947","U+1948","U+1949",
     "U+194A","U+194B","U+194C","U+194D","U+194E","U+194F",
     "U+19D0","U+19D1","U+19D2","U+19D3","U+19D4","U+19D5",
     "U+19D6","U+19D7","U+19D8","U+19D9","U+1A80","U+1A81",
     "U+1A82","U+1A83","U+1A84","U+1A85","U+1A86","U+1A87",
     "U+1A88","U+1A89","U+1A90","U+1A91","U+1A92","U+1A93",
     "U+1A94","U+1A95","U+1A96","U+1A97","U+1A98","U+1A99",
     "U+1B50","U+1B51","U+1B52","U+1B53","U+1B54","U+1B55",
     "U+1B56","U+1B57","U+1B58","U+1B59","U+1BB0","U+1BB1",
     "U+1BB2","U+1BB3","U+1BB4","U+1BB5","U+1BB6","U+1BB7",
     "U+1BB8","U+1BB9","U+1C40","U+1C41","U+1C42","U+1C43",
     "U+1C44","U+1C45","U+1C46","U+1C47","U+1C48","U+1C49",
     "U+1C50","U+1C51","U+1C52","U+1C53","U+1C54","U+1C55",
     "U+1C56","U+1C57","U+1C58","U+1C59","U+A620","U+A621",
     "U+A622","U+A623","U+A624","U+A625","U+A626","U+A627",
     "U+A628","U+A629","U+A8D0","U+A8D1","U+A8D2","U+A8D3",
     "U+A8D4","U+A8D5","U+A8D6","U+A8D7","U+A8D8","U+A8D9",
     "U+A900","U+A901","U+A902","U+A903","U+A904","U+A905",
     "U+A906","U+A907","U+A908","U+A909","U+A9D0","U+A9D1",
     "U+A9D2","U+A9D3","U+A9D4","U+A9D5","U+A9D6","U+A9D7",
     "U+A9D8","U+A9D9","U+A9F0","U+A9F1","U+A9F2","U+A9F3",
     "U+A9F4","U+A9F5","U+A9F6","U+A9F7","U+A9F8","U+A9F9",
     "U+AA50","U+AA51","U+AA52","U+AA53","U+AA54","U+AA55",
     "U+AA56","U+AA57","U+AA58","U+AA59","U+ABF0","U+ABF1",
     "U+ABF2","U+ABF3","U+ABF4","U+ABF5","U+ABF6","U+ABF7",
     "U+ABF8","U+ABF9","U+FF10","U+FF11","U+FF12","U+FF13",
     "U+FF14","U+FF15","U+FF16","U+FF17","U+FF18","U+FF19",
     "U+104A0","U+104A1","U+104A2","U+104A3","U+104A4","U+104A5",
     "U+104A6","U+104A7","U+104A8","U+104A9","U+10D30","U+10D31",
     "U+10D32","U+10D33","U+10D34","U+10D35","U+10D36","U+10D37",
     "U+10D38","U+10D39","U+11066","U+11067","U+11068","U+11069",
     "U+1106A","U+1106B","U+1106C","U+1106D","U+1106E","U+1106F",
     "U+110F0","U+110F1","U+110F2","U+110F3","U+110F4","U+110F5",
     "U+110F6","U+110F7","U+110F8","U+110F9","U+11136","U+11137",
     "U+11138","U+11139","U+1113A","U+1113B","U+1113C","U+1113D",
     "U+1113E","U+1113F","U+111D0","U+111D1","U+111D2","U+111D3",
     "U+111D4","U+111D5","U+111D6","U+111D7","U+111D8","U+111D9",
     "U+112F0","U+112F1","U+112F2","U+112F3","U+112F4","U+112F5",
     "U+112F6","U+112F7","U+112F8","U+112F9","U+11450","U+11451",
     "U+11452","U+11453","U+11454","U+11455","U+11456","U+11457",
     "U+11458","U+11459","U+114D0","U+114D1","U+114D2","U+114D3",
     "U+114D4","U+114D5","U+114D6","U+114D7","U+114D8","U+114D9",
     "U+11650","U+11651","U+11652","U+11653","U+11654","U+11655",
     "U+11656","U+11657","U+11658","U+11659","U+116C0","U+116C1",
     "U+116C2","U+116C3","U+116C4","U+116C5","U+116C6","U+116C7",
     "U+116C8","U+116C9","U+11730","U+11731","U+11732","U+11733",
     "U+11734","U+11735","U+11736","U+11737","U+11738","U+11739",
     "U+118E0","U+118E1","U+118E2","U+118E3","U+118E4","U+118E5",
     "U+118E6","U+118E7","U+118E8","U+118E9","U+11950","U+11951",
     "U+11952","U+11953","U+11954","U+11955","U+11956","U+11957",
     "U+11958","U+11959","U+11C50","U+11C51","U+11C52","U+11C53",
     "U+11C54","U+11C55","U+11C56","U+11C57","U+11C58","U+11C59",
     "U+11D50","U+11D51","U+11D52","U+11D53","U+11D54","U+11D55",
     "U+11D56","U+11D57","U+11D58","U+11D59","U+11DA0","U+11DA1",
     "U+11DA2","U+11DA3","U+11DA4","U+11DA5","U+11DA6","U+11DA7",
     "U+11DA8","U+11DA9","U+16A60","U+16A61","U+16A62","U+16A63",
     "U+16A64","U+16A65","U+16A66","U+16A67","U+16A68","U+16A69",
     "U+16AC0","U+16AC1","U+16AC2","U+16AC3","U+16AC4","U+16AC5",
     "U+16AC6","U+16AC7","U+16AC8","U+16AC9","U+16B50","U+16B51",
     "U+16B52","U+16B53","U+16B54","U+16B55","U+16B56","U+16B57",
     "U+16B58","U+16B59","U+1D7CE","U+1D7CF","U+1D7D0","U+1D7D1",
     "U+1D7D2","U+1D7D3","U+1D7D4","U+1D7D5","U+1D7D6","U+1D7D7",
     "U+1D7D8","U+1D7D9","U+1D7DA","U+1D7DB","U+1D7DC","U+1D7DD",
     "U+1D7DE","U+1D7DF","U+1D7E0","U+1D7E1","U+1D7E2","U+1D7E3",
     "U+1D7E4","U+1D7E5","U+1D7E6","U+1D7E7","U+1D7E8","U+1D7E9",
     "U+1D7EA","U+1D7EB","U+1D7EC","U+1D7ED","U+1D7EE","U+1D7EF",
     "U+1D7F0","U+1D7F1","U+1D7F2","U+1D7F3","U+1D7F4","U+1D7F5",
     "U+1D7F6","U+1D7F7","U+1D7F8","U+1D7F9","U+1D7FA","U+1D7FB",
     "U+1D7FC","U+1D7FD","U+1D7FE","U+1D7FF","U+1E140","U+1E141",
     "U+1E142","U+1E143","U+1E144","U+1E145","U+1E146","U+1E147",
     "U+1E148","U+1E149","U+1E2F0","U+1E2F1","U+1E2F2","U+1E2F3",
     "U+1E2F4","U+1E2F5","U+1E2F6","U+1E2F7","U+1E2F8","U+1E2F9",
     "U+1E950","U+1E951","U+1E952","U+1E953","U+1E954","U+1E955",
     "U+1E956","U+1E957","U+1E958","U+1E959","U+1FBF0","U+1FBF1",
     "U+1FBF2","U+1FBF3","U+1FBF4","U+1FBF5","U+1FBF6","U+1FBF7",
     "U+1FBF8","U+1FBF9"}

\* The character class [a-z0-9].
ALNUM ==
    LOWER \cup DIGIT

\* The character class [a-z0-9_.-].
VALID_CLASS ==
    ALNUM \cup {"_", ".", "-"}

\* The characters constructor inputs are drawn from: a letter, the underscore,
\* a character of the permissive grammar only, both separators, a character
\* of neither grammar, and the newline that "$" lets through.
Chars ==
    {"a", "_", "-", ":", "/", "A", "\n"}

\* All strings over S of length at most n.
StringsUpTo(S, n) ==
    UNION {[1..k -> S] : k \in 0..n}

\* ------------------------------------------------------- string helpers

\* Index of the first occurrence of character c in s, 0 if there is none.
Find(s, c) ==
    IF \E i \in 1..Len(s) : s[i] = c
    THEN CHOOSE i \in 1..Len(s) : s[i] = c /\ \A j \in 1..(i - 1) : s[j] # c
    ELSE 0

\* str.partition(c) for a one-character separator: <<head, sep, tail>>.
Partition(s, c) ==
    LET i == Find(s, c)
    IN  IF i = 0 THEN <<s, <<>>, <<>>>>
        ELSE <<SubSeq(s, 1, i - 1), <<c>>, SubSeq(s, i + 1, Len(s))>>

\* str.split(c) for a one-character separator: never empty, "" gives [""].
RECURSIVE Split(_, _)
Split(s, c) ==
    LET i == Find(s, c)
    IN  IF i = 0 THEN <<s>>
        ELSE <<SubSeq(s, 1, i - 1)>> \o Split(SubSeq(s, i + 1, Len(s)), c)

\* sep.join(parts).
RECURSIVE Join(_, _)
Join(parts, sep) ==
    IF parts = <<>> THEN <<>>
    ELSE IF Len(parts) = 1 THEN parts[1]
    ELSE parts[1] \o sep \o Join(Tail(parts), sep)

\* str.startswith(c) for a one-character prefix.
StartsWith(s, c) ==
    Len(s) > 0 /\ s[1] = c

\* str.removesuffix(c) for a one-character suffix.
RemoveSuffix(s, c) ==
    IF Len(s) > 0 /\ s[Len(s)] = c THEN SubSeq(s, 1, Len(s) - 1) ELSE s

\* What "$" leaves to the body of a pattern under re.match: "$" matches at
\* the end of the string and also just before one trailing newline.
BeforeDollar(s) ==
    RemoveSuffix(s, "\n")

\* [a-z0-9_.-]+
IsValidBody(s) ==
    Len(s) > 0 /\ \A i \in 1..Len(s) : s[i] \in VALID_CLASS

\* [a-z0-9]+(?:_[a-z0-9]+)*
IsConventionalBody(s) ==
    /\ Len(s) > 0
    /\ \A i \in 1..Len(s) : s[i] \in ALNUM \cup {"_"}
    /\ s[1] \in ALNUM
    /\ s[Len(s)] \in ALNUM
    /\ \A i \in 1..(Len(s) - 1) : ~(s[i] = "_" /\ s[i + 1] = "_")

\* VALID_RESOURCE_NAME.match(name)
VALID_RESOURCE_NAME(name) ==
    IsValidBody(name) \/ IsValidBody(BeforeDollar(name))

\* CONVENTIONAL_RESOURCE_NAME.match(name)
CONVENTIONAL_RESOURCE_NAME(name) ==
    IsConventionalBody(name) \/ IsConventionalBody(BeforeDollar(name))

PRIVATE_PATH ==
    <<"z","z","/","d","o","_","n","o","t","_","r","u","n","_","o","r","_",
      "p","a","c","k","s","_","m","a","y","_","b","r","e","a","k">>

\* ---------------------------------------------------------------- values

\* The empty dict.
EmptyDict ==
    [k \in {} |-> 0]

\* Python values, in one record shape: t is the type, and the field of that
\* type carries the value (s a str, b a bool, l a tuple of str, n an int,
\* o the __dict__ of a ResourceLocation).  An int that is the keyed hash of
\* a non-empty str is not computed: it is named by the key k and the str s.
NoneV ==
    [t |-> "None", s |-> <<>>, b |-> FALSE, l |-> <<>>, n |-> 0,
     o |-> EmptyDict, k |-> ""]

StrV(x) ==
    [NoneV EXCEPT !.t = "str", !.s = x]

BoolV(x) ==
    [NoneV EXCEPT !.t = "bool", !.b = x]

TupleV(x) ==
    [NoneV EXCEPT !.t = "tuple", !.l = x]

IntV(x) ==
    [NoneV EXCEPT !.t = "int", !.n = x]

ObjV(x) ==
    [NoneV EXCEPT !.t = "ResourceLocation", !.o = x]

\* An instance of lib.version.Version, opaque here: it is only passed through.
VersionV ==
    [NoneV EXCEPT !.t = "Version"]

\* bool(x) of a str or None.
Truthy(x) ==
    x.t = "str" /\ x.s # <<>>

\* The outcome of a call: exc is the exception type ("" when it returns),
\* msg and name its message, v the value returned, self the receiver's
\* __dict__ after the call (cached properties fill it).
Return(x, self) ==
    [exc |-> "", msg |-> "", name |-> <<>>, v |-> x, self |-> self]

Raise(exc, msg, name, self) ==
    [exc |-> exc, msg |-> msg, name |-> name, v |-> NoneV, self |-> self]

\* ------------------------------------------------------- attribute names

a_namespace ==
    <<"_","n","a","m","e","s","p","a","c","e">>

a_abstract_path ==
    <<"_","a","b","s","t","r","a","c","t","_","p","a","t","h">>

a_path_segments ==
    <<"_","p","a","t","h","_","s","e","g","m","e","n","t","s">>

a_path ==
    <<"_","p","a","t","h">>

a_version ==
    <<"v","e","r","s","i","o","n">>

a_title ==
    <<"t","i","t","l","e">>

a_external ==
    <<"e","x","t","e","r","n","a","l">>

\* ------------------------------------------------------ ResourceLocation

\* self.<name> evaluated inside a cached property's body, or __getattr__
\* called for the property's own name after its body raised AttributeError:
\* the name is not in the __dict__, so __getattr__ is called; it rejects a
\* name outside the conventional grammar, and for any other name it would
\* read self._path_segments again, without end.
InnerGetattr(self, name) ==
    IF ~CONVENTIONAL_RESOURCE_NAME(name)
    THEN Raise("AttributeError", "no attribute", name, self)
    ELSE Raise("RecursionError", "maximum recursion depth exceeded", name, self)

\* PrivateRewrite without its test of self.external.
PrivateRewrite_ignoring_external(path_segments, external) ==
    IF StartsWith(path_segments[Len(path_segments)], "_")
    THEN <<PRIVATE_PATH>> \o
         [path_segments EXCEPT ![Len(path_segments)] = RemoveSuffix(@, "_")]
    ELSE path_segments

\* The private-path rewrite of _path_segments, on the list path_segments.
PrivateRewrite(path_segments, external) ==
    IF ~external /\ StartsWith(path_segments[Len(path_segments)], "_")
    THEN <<PRIVATE_PATH>> \o
         [path_segments EXCEPT ![Len(path_segments)] = RemoveSuffix(@, "_")]
    ELSE path_segments

\* The body of the cached property _path_segments.  self.external is in the
\* __dict__ of every instance: __init__ assigns it before anything reads it.
_path_segments(self) ==
    IF a_abstract_path \notin DOMAIN self
    THEN InnerGetattr(self, a_abstract_path)
    ELSE IF self[a_abstract_path] = NoneV THEN Return(TupleV(<<>>), self)
    ELSE Return(TupleV(PrivateRewrite(Split(self[a_abstract_path].s, "/"),
                                      self[a_external].b)), self)

\* cached_property.__get__ once the body has ended as r: its value is stored
\* in the __dict__ under the property's name; an AttributeError out of the
\* body makes Python call __getattr__ for the property's name.
cached_property(self, name, r) ==
    IF r.exc = "" THEN Return(r.v, (name :> r.v) @@ r.self)
    ELSE IF r.exc = "AttributeError" THEN InnerGetattr(self, name)
    ELSE r

\* self._path_segments
get_path_segments(self) ==
    IF a_path_segments \in DOMAIN self
    THEN Return(self[a_path_segments], self)
    ELSE cached_property(self, a_path_segments, _path_segments(self))

\* "/".join(segs) if segs else None, segs the outcome of self._path_segments.
JoinPath(segs) ==
    IF segs.exc # "" THEN segs
    ELSE IF segs.v.l # <<>>
    THEN Return(StrV(Join(segs.v.l, <<"/">>)), segs.self)
    ELSE Return(NoneV, segs.self)

\* The body of the cached property _path.
_path(self) ==
    JoinPath(get_path_segments(self))

\* self._path
get_path(self) ==
    IF a_path \in DOMAIN self THEN Return(self[a_path], self)
    ELSE cached_property(self, a_path, _path(self))

\* ".".join([self._namespace, *self._path_segments, key]), segs the outcome
\* of self._path_segments.
Symbol(self, key, segs) ==
    IF segs.exc # "" THEN segs
    ELSE Return(StrV(Join(<<self[a_namespace].s>> \o segs.v.l \o <<key>>,
                          <<".">>)), segs.self)

\* __getattr__, which Python calls when the normal lookup raised
\* AttributeError.
__getattr__(self, key) ==
    IF ~CONVENTIONAL_RESOURCE_NAME(key)
    THEN Raise("AttributeError", "no attribute", key, self)
    ELSE Symbol(self, key, get_path_segments(self))

\* Attribute lookup self.<name>, by object.__getattribute__ with the
\* __getattr__ fallback: the instance __dict__ first, then the class's
\* cached properties, then __getattr__.  The names looked up in this model
\* are never those of the class's methods.
getattr(self, name) ==
    IF name \in DOMAIN self THEN Return(self[name], self)
    ELSE IF name = a_path_segments THEN get_path_segments(self)
    ELSE IF name = a_path THEN get_path(self)
    ELSE __getattr__(self, name)

_check_name(self, name) ==
    IF ~VALID_RESOURCE_NAME(name)
    THEN Raise("ValueError", "invalid", name, self)
    ELSE IF ~(CONVENTIONAL_RESOURCE_NAME(name) \/ self[a_external].b)
    THEN Raise("ValueError", "unconventional", name, self)
    ELSE Return(NoneV, self)

\* The loop "for path_segment in self._path_segments:
\* self._check_name(path_segment)", segs the outcome of self._path_segments:
\* the first segment that fails raises.
CheckSegments(segs) ==
    IF segs.exc # "" THEN segs
    ELSE IF \A i \in 1..Len(segs.v.l) : _check_name(segs.self, segs.v.l[i]).exc = ""
    THEN Return(NoneV, segs.self)
    ELSE _check_name(segs.self, segs.v.l[
            CHOOSE i \in 1..Len(segs.v.l) :
                /\ _check_name(segs.self, segs.v.l[i]).exc # ""
                /\ \A j \in 1..(i - 1) : _check_name(segs.self, segs.v.l[j]).exc = ""])

\* The __dict__ after the assignments of __init__ that come before the first
\* check, p being base.partition(":").
NewDict(p, version, title, external) ==
    (a_namespace :> StrV(p[1])) @@ (a_version :> version)
    @@ (a_title :> title) @@ (a_external :> BoolV(external))

\* The checks of __init__ on the instance self, p being base.partition(":").
InitChecks(p, self) ==
    IF _check_name(self, p[1]).exc # "" THEN _check_name(self, p[1])
    ELSE IF p[2] = <<>> THEN Return(NoneV, self)
    ELSE CheckSegments(get_path_segments((a_abstract_path :> StrV(p[3])) @@ self))

\* ResourceLocation(base, version=version, title=title, external=external),
\* version being None or a Version instance.
__init__(base, version, title, external) ==
    InitChecks(Partition(base, ":"),
               NewDict(Partition(base, ":"), version, title, external))

\* The value of __truediv__, new the outcome of the constructor call.
DivReturn(self, new) ==
    IF new.exc # "" THEN [new EXCEPT !.self = self]
    ELSE Return(ObjV(new.self), self)

\* The return statement of __truediv__, external the outcome of
\* self._external.
DivConstruct(self, path, external) ==
    IF external.exc # "" THEN external
    ELSE DivReturn(self, __init__(self[a_namespace].s \o <<":">> \o path,
                                  NoneV, NoneV, external.v.b))

\* The first statement of __truediv__ and on, ap the outcome of
\* self._abstract_path.
DivPath(self, other, ap) ==
    IF ap.exc # "" THEN ap
    ELSE DivConstruct(self,
            IF Truthy(ap.v) THEN ap.v.s \o <<"/">> \o other ELSE other,
            getattr(self, <<"_">> \o a_external))

__truediv__(self, other) ==
    DivPath(self, other, getattr(self, a_abstract_path))

__getitem__(self, key) ==
    getattr(self, <<"_">> \o key)

\* The value of __str__, path the outcome of self._path.
Render(self, path) ==
    IF path.exc # "" THEN path
    ELSE IF path.v = NoneV THEN Return(self[a_namespace], path.self)
    ELSE Return(StrV(self[a_namespace].s \o <<":">> \o path.v.s), path.self)

__str__(self) ==
    Render(self, get_path(self))

\* a == b, a and b the outcomes of str(self) and str(other).
StrEqual(a, b) ==
    IF a.exc # "" THEN a
    ELSE IF b.exc # "" THEN [b EXCEPT !.self = a.self]
    ELSE Return(BoolV(a.v = b.v), a.self)

\* self == other, other a ResourceLocation.
__eq__(self, other) ==
    StrEqual(__str__(self), __str__(other))

\* The quote repr() puts around the str s.
ReprQuote(s) ==
    IF (\E i \in 1..Len(s) : s[i] = "'") /\ ~(\E i \in 1..Len(s) : s[i] = "\"")
    THEN "\""
    ELSE "'"

\* The characters of s as repr() writes them between the quotes: a
\* backslash before a backslash and before the quote in use, the newline as
\* a backslash and "n"; every other character of a rendered location is
\* printable ASCII and stands for itself.
RECURSIVE ReprEscape(_, _)
ReprEscape(s, quote) ==
    IF s = <<>> THEN <<>>
    ELSE (IF Head(s) = "\n" THEN <<"\\", "n">>
          ELSE IF Head(s) = "\\" \/ Head(s) = quote THEN <<"\\", Head(s)>>
          ELSE <<Head(s)>>) \o ReprEscape(Tail(s), quote)

\* The builtin repr of a str.
repr(s) ==
    <<ReprQuote(s)>> \o ReprEscape(s, ReprQuote(s)) \o <<ReprQuote(s)>>

\* type(self).__name__
TypeName ==
    <<"R","e","s","o","u","r","c","e","L","o","c","a","t","i","o","n">>

\* The value of __repr__, a the outcome of str(self).
ReprOf(a) ==
    IF a.exc # "" THEN a
    ELSE Return(StrV(TypeName \o <<"(">> \o repr(a.v.s) \o <<")">>), a.self)

__repr__(self) ==
    ReprOf(__str__(self))

\* The keys the interpreter may hash str with: one is drawn when the process
\* starts (PYTHONHASHSEED) and kept until it ends.
HashSeeds ==
    {"k1", "k2"}

\* The builtin hash of a str in a process whose key is seed: 0 for the
\* empty str, and for any other a 64-bit value of the keyed function, which
\* is named by its key and its argument.  Within a process equal strings
\* have equal hashes; the values of different strings, or under different
\* keys, are taken to differ.
hash(seed, s) ==
    IF s = <<>> THEN IntV(0)
    ELSE [NoneV EXCEPT !.t = "int", !.s = s, !.k = seed]

\* hash(a), a the outcome of str(self).
HashOf(seed, a) ==
    IF a.exc # "" THEN a ELSE Return(hash(seed, a.v.s), a.self)

__hash__(seed, self) ==
    HashOf(seed, __str__(self))

\* ------------------------------------------------------------ the inputs

\* The constructor inputs of the class docstring and of its documented
\* properties.
Examples ==
    {<<"n","s">>,
     <<"n","s",":","a">>,
     <<"n","s",":","p","a","t","h">>,
     <<"n","s",":","a","p","i">>,
     <<"n","s",":","a","p","i","/","_","t","e","s","t">>,
     <<"a",":","b">>,
     <<"n","a","m","e","s","p","a","c","e">>,
     <<"n","a","m","e","s","p","a","c","e",":","a","n","o","t","h","e","r","/","p","a","t","h">>,
     <<"s","o","m","e","t","h","i","n","g",":","e","l","s","e">>,
     <<"e","x","t","e","r","n","a","l","_","p","a","c","k",":","a","p","i">>,
     <<"B","a","d","_","N","a","m","e">>,
     <<"n","s",":","H","a","s","-","D","a","s","h">>,
     <<"n","s",":","_","t","h","i","n","g">>,
     <<"n","s",":","a","/","_","t","h","i","n","g">>}

Bases ==
    StringsUpTo(Chars, MaxLen) \cup Examples

Titles ==
    {NoneV, StrV(<<"X">>)}

Versions ==
    {NoneV, VersionV}

\* Suffixes given to "/".
Suffixes ==
    {<<"x">>, <<"y">>, <<"_","t","h","i","n","g">>, <<"_","t","e","s","t">>, <<"x","/","y">>}

\* Keys of attribute-style lookup: symbol names, the three names __init__
\* assigns, and two keys outside the conventional grammar.
Keys ==
    {<<"t","h","i","n","g","_","1">>, <<"t","h","i","n","g","_","2">>, a_title, a_version, a_external, <<"B","a","d",".","K","e","y">>, <<"T","h","i","n","g">>}

\* Keys of bracket-style lookup.
Fields ==
    {<<"n","a","m","e","s","p","a","c","e">>, <<"a","b","s","t","r","a","c","t","_","p","a","t","h">>, <<"p","a","t","h">>, <<"p","a","t","h","_","s","e","g","m","e","n","t","s">>,
     a_version, a_title, a_external}

\* The right-hand sides of "==": the constructor arguments of other.
OtherArgs ==
    {[base |-> b, version |-> NoneV, title |-> NoneV, external |-> e] :
        b \in {<<"a">>, <<"a",":","a">>, <<"a",":","b">>, <<"n","s">>, <<"n","s",":","a">>, <<"a","-","a",":","_">>},
        e \in BOOLEAN}

\* ------------------------------------------------------------- the state

VARIABLES
    pc,            \* ResourceLocation client: "new", "live", "failed" ("idle" under SpecBuild)
    args,          \* the constructor arguments: base, version, title, external
    loc,           \* the __dict__ of the constructed location
    last,          \* the last operation on loc, its arguments and its outcome
    hashseed,      \* the key of the builtin hash in this process
    bpc,           \* beet_default: "start", "validate", "build", "done", "raised" ("idle" under Spec)
    pack_pattern,  \* str(ctx.meta.get("pack_pattern"))
    tree,          \* the file system under ".": its entries, in scandir order
    listing,       \* what the generator pack_paths was made to yield, in order
    pack_paths,    \* what the generator pack_paths has yet to yield
    pack_configs,  \* the dict pack_configs
    required,      \* the sub-builds handed to ctx.require, in order
    logged,        \* the paths whose exception logger.exception reported
    error          \* the exception that left beet_default, "" if none

rl_vars ==
    <<pc, args, loc, last, hashseed>>

build_vars ==
    <<bpc, pack_pattern, tree, listing, pack_paths, pack_configs, required,
      logged, error>>

vars ==
    <<pc, args, loc, last, hashseed, bpc, pack_pattern, tree, listing,
      pack_paths, pack_configs, required, logged, error>>

NoLast ==
    [op |-> "", key |-> <<>>, other |-> EmptyDict, exc |-> "", msg |-> "",
     name |-> <<>>, v |-> NoneV]

\* The record of operation op, with argument key or other, ending as r.
Outcome(op, key, other, r) ==
    [op |-> op, key |-> key, other |-> other, exc |-> r.exc, msg |-> r.msg,
     name |-> r.name, v |-> r.v]

BuildIdle ==
    /\ bpc = "idle"
    /\ pack_pattern = <<>>
    /\ tree = <<>>
    /\ listing = <<>>
    /\ pack_paths = <<>>
    /\ pack_configs = EmptyDict
    /\ required = <<>>
    /\ logged = <<>>
    /\ error = ""

Init ==
    /\ pc = "new"
    /\ args \in [base : Bases, version : Versions, title : Titles,
                 external : BOOLEAN]
    /\ loc = EmptyDict
    /\ last = NoLast
    /\ hashseed \in HashSeeds
    /\ BuildIdle

\* The end of the constructor call: a location, or none.
Constructed(r) ==
    /\ pc' = IF r.exc = "" THEN "live" ELSE "failed"
    /\ loc' = IF r.exc = "" THEN r.self ELSE EmptyDict
    /\ last' = Outcome("init", <<>>, EmptyDict, r)

\* The end of an operation on loc.
Done(op, key, other, r) ==
    /\ loc' = r.self
    /\ last' = Outcome(op, key, other, r)

\* loc = ResourceLocation(base, version=..., title=..., external=...)
New ==
    /\ pc = "new"
    /\ Constructed(__init__(args.base, args.version, args.title, args.external))
    /\ UNCHANGED <<args, hashseed, build_vars>>

\* str(loc)
Str ==
    /\ pc = "live"
    /\ Done("str", <<>>, EmptyDict, __str__(loc))
    /\ UNCHANGED <<pc, args, hashseed, build_vars>>

\* loc / suffix
Div(suffix) ==
    /\ pc = "live"
    /\ Done("truediv", suffix, EmptyDict, __truediv__(loc, suffix))
    /\ UNCHANGED <<pc, args, hashseed, build_vars>>

\* loc.<key>
Attr(key) ==
    /\ pc = "live"
    /\ Done("getattr", key, EmptyDict, getattr(loc, key))
    /\ UNCHANGED <<pc, args, hashseed, build_vars>>

\* loc[field]
Item(field) ==
    /\ pc = "live"
    /\ Done("getitem", field, EmptyDict, __getitem__(loc, field))
    /\ UNCHANGED <<pc, args, hashseed, build_vars>>

\* loc == other, other the outcome of a constructor call that succeeded.
EqWith(other) ==
    /\ other.exc = ""
    /\ Done("eq", <<>>, other.self, __eq__(loc, other.self))

\* loc == ResourceLocation(o.base, ..., external=o.external)
Eq(o) ==
    /\ pc = "live"
    /\ EqWith(__init__(o.base, o.version, o.title, o.external))
    /\ UNCHANGED <<pc, args, hashseed, build_vars>>

\* repr(loc)
Repr ==
    /\ pc = "live"
    /\ Done("repr", <<>>, EmptyDict, __repr__(loc))
    /\ UNCHANGED <<pc, args, hashseed, build_vars>>

\* hash(loc)
Hash ==
    /\ pc = "live"
    /\ Done("hash", <<>>, EmptyDict, __hash__(hashseed, loc))
    /\ UNCHANGED <<pc, args, hashseed, build_vars>>

Next ==
    \/ New
    \/ Str
    \/ \E suffix \in Suffixes : Div(suffix)
    \/ \E key \in Keys : Attr(key)
    \/ \E field \in Fields : Item(field)
    \/ \E o \in OtherArgs : Eq(o)
    \/ Repr
    \/ Hash

Spec ==
    Init /\ [][Next]_vars

\* ----------------------------------------------------------- beet_default

\* \d+\.\d+
IsGameVersion(s) ==
    /\ Partition(s, ".")[2] # <<>>
    /\ Partition(s, ".")[1] # <<>>
    /\ Partition(s, ".")[3] # <<>>
    /\ \A i \in 1..Len(s) : s[i] \in UNICODE_DIGIT \/ i = Find(s, ".")

\* VALID_PATH.match(path), path the posix form of a relative path:
\* ^(?:data|resource)packs/\d+\.\d+/[^/]+$
VALID_PATH(path) ==
    /\ Len(Split(path, "/")) = 3
    /\ Split(path, "/")[1] \in {<<"d","a","t","a","p","a","c","k","s">>,
                                <<"r","e","s","o","u","r","c","e","p","a","c","k","s">>}
    /\ IsGameVersion(Split(path, "/")[2])
    /\ Split(path, "/")[3] # <<>>

\* pack_path.parts
Parts(path) ==
    Split(path, "/")

\* pack_path.name
Name(path) ==
    Parts(path)[Len(Parts(path))]

\* The values of pack_pattern: the empty pattern, an absolute one, three
\* relative ones glob rejects, and three it accepts.  (Without the key in
\* ctx.meta the pattern is "None", a pattern glob accepts.)  No pattern has
\* a part "..": the tree is what lies under ".".
PackPatterns ==
    {<<>>,
     <<"/","a","b","s","/","*">>,
     <<".">>,
     <<".","/">>,
     <<"*","*","a">>,
     <<"*","*","/","*">>,
     <<"*","p","a","c","k","s","/","*","/","*">>,
     <<"d","a","t","a","p","a","c","k","s","/","*","/","*">>}

\* The parts pathlib parses a relative pattern into: its components between
\* "/", the empty ones and "." dropped, and an empty part at the end when
\* the pattern ends in "/".
PatternParts(pattern) ==
    SelectSeq(Split(pattern, "/"), LAMBDA c : c # <<>> /\ c # <<".">>)
    \o (IF pattern[Len(pattern)] = "/" THEN << <<>> >> ELSE <<>>)

\* "**" in pat
HasDoubleStar(pat) ==
    \E i \in 1..(Len(pat) - 1) : pat[i] = "*" /\ pat[i + 1] = "*"

\* What building the selectors of the parts raises: IndexError when there is
\* no part, AttributeError when the first is the empty one (the selector
\* made for it cannot select), ValueError when a part holds "**" and more.
SelectorError(parts) ==
    IF parts = <<>> THEN "IndexError"
    ELSE IF parts[1] = <<>> THEN "AttributeError"
    ELSE IF \E i \in 1..Len(parts) :
                parts[i] # <<"*","*">> /\ HasDoubleStar(parts[i])
    THEN "ValueError"
    ELSE ""

\* What the generator Path(".").glob(pattern) raises when it is first
\* advanced, "" when it yields paths: ValueError for the empty pattern,
\* NotImplementedError for one that is not relative, else what building the
\* selectors raises.
GlobError(pattern) ==
    IF pattern = <<>> THEN "ValueError"
    ELSE IF pattern[1] = "/" THEN "NotImplementedError"
    ELSE SelectorError(PatternParts(pattern))

\* The paths of the entries a tree is made of.  None is a prefix of another.
PackPaths ==
    {<<"d","a","t","a","p","a","c","k","s","/","1",".","2","0","/","f","o","o">>,
     <<"r","e","s","o","u","r","c","e","p","a","c","k","s","/","1",".","2","1","/","b","a","r">>,
     <<"d","a","t","a","p","a","c","k","s","/","U+0661",".","U+0662","/","f","o","o">>,
     <<"d","a","t","a","p","a","c","k","s","/","f","o","o">>,
     <<"d","a","t","a","p","a","c","k","s","/","l","a","t","e","s","t","/","f","o","o">>}

\* A value yaml.safe_load returns: t its type and, of a dict, d its items.
YamlValue(t, d) ==
    [t |-> t, d |-> d]

\* No value: config.yaml is missing, or loading it raised.
NoConfig ==
    YamlValue("", EmptyDict)

\* How yaml.safe_load(pack_config_path.read_text()) may end: with a mapping
\* that has both keys or lacks one of them, with None (an empty file), with
\* a value that is no mapping (a list), or with an exception, of read_text
\* (UnicodeDecodeError) or of the parser (ParserError).
Configs ==
    {[exc |-> "", v |-> YamlValue("dict", d)] :
        d \in {("title" :> "Title") @@ ("version" :> "1.0.0"),
               ("version" :> "1.0.0"),
               ("title" :> "Title")}}
    \cup {[exc |-> "", v |-> YamlValue("NoneType", EmptyDict)],
          [exc |-> "", v |-> YamlValue("list", EmptyDict)],
          [exc |-> "UnicodeDecodeError", v |-> NoConfig],
          [exc |-> "ParserError", v |-> NoConfig]}

\* What may be found at a matched path: a file, a directory without a
\* config.yaml, a directory with one.
EntriesAt(path) ==
    {[path |-> path, is_dir |-> FALSE, has_config |-> FALSE,
      config |-> [exc |-> "", v |-> NoConfig]],
     [path |-> path, is_dir |-> TRUE, has_config |-> FALSE,
      config |-> [exc |-> "", v |-> NoConfig]]}
    \cup {[path |-> path, is_dir |-> TRUE, has_config |-> TRUE, config |-> c] :
            c \in Configs}

\* The file systems under ".": at most MaxPacks entries, at distinct paths,
\* with the directories above them and the config.yaml in them.  The order
\* of the entries is the order scandir lists them in: of two names in one
\* directory, the one that leads to the earlier entry comes first.
Trees ==
    {l \in UNION {[1..k -> UNION {EntriesAt(q) : q \in PackPaths}] : k \in 0..MaxPacks} :
        \A i, j \in 1..Len(l) : i # j => l[i].path # l[j].path}

\* The name of a pack's config file.
config_yaml ==
    <<"c","o","n","f","i","g",".","y","a","m","l">>

\* The parts of the deepest path the entry e puts in the tree.
LeafParts(e) ==
    IF e.has_config THEN Parts(e.path) \o <<config_yaml>> ELSE Parts(e.path)

\* The parts p begin the parts q.
IsPrefix(p, q) ==
    Len(p) <= Len(q) /\ SubSeq(q, 1, Len(p)) = p

\* path.exists(), node the parts of path (none for ".").
exists(t, node) ==
    \/ node = <<>>
    \/ \E i \in 1..Len(t) : IsPrefix(node, LeafParts(t[i]))

\* path.is_dir()
is_dir(t, node) ==
    \/ node = <<>>
    \/ \E i \in 1..Len(t) :
           IsPrefix(node, LeafParts(t[i])) /\ Len(node) < Len(LeafParts(t[i]))
    \/ \E i \in 1..Len(t) : node = Parts(t[i].path) /\ t[i].is_dir

\* path.is_file()
is_file(t, node) ==
    exists(t, node) /\ ~is_dir(t, node)

\* The entries that are the first to lie under their child of dir.
FirstUnder(t, dir) ==
    {i \in 1..Len(t) :
        /\ IsPrefix(dir, LeafParts(t[i]))
        /\ Len(dir) < Len(LeafParts(t[i]))
        /\ \A j \in 1..(i - 1) :
               ~IsPrefix(SubSeq(LeafParts(t[i]), 1, Len(dir) + 1), LeafParts(t[j]))}

\* The children of the directory dir, in the order scandir lists them.
scandir(t, dir) ==
    [k \in 1..Cardinality(FirstUnder(t, dir)) |->
        SubSeq(LeafParts(t[CHOOSE i \in FirstUnder(t, dir) :
                   Cardinality({j \in FirstUnder(t, dir) : j < i}) = k - 1]),
               1, Len(dir) + 1)]

\* fnmatch of the name against the pattern part pat, for the wildcards "*"
\* and "?" (no pattern of PackPatterns holds a "[").
RECURSIVE FnMatch(_, _)
FnMatch(pat, name) ==
    IF pat = <<>> THEN name = <<>>
    ELSE IF Head(pat) = "*"
    THEN FnMatch(Tail(pat), name) \/ (name # <<>> /\ FnMatch(pat, Tail(name)))
    ELSE IF Head(pat) = "?"
    THEN name # <<>> /\ FnMatch(Tail(pat), Tail(name))
    ELSE name # <<>> /\ Head(name) = Head(pat) /\ FnMatch(Tail(pat), Tail(name))

_is_wildcard_pattern(pat) ==
    \E i \in 1..Len(pat) : pat[i] \in {"*", "?", "["}

\* The children of parent a _WildcardSelector for pat hands to its
\* successor.
WildcardChildren(t, parent, pat, dironly) ==
    SelectSeq(scandir(t, parent),
              LAMBDA c : (dironly => is_dir(t, c)) /\ FnMatch(pat, c[Len(c)]))

\* The child of parent a _PreciseSelector for name hands to its successor.
PreciseChild(t, parent, name, dironly) ==
    IF (IF dironly THEN is_dir(t, parent \o <<name>>)
        ELSE exists(t, parent \o <<name>>))
    THEN <<parent \o <<name>>>>
    ELSE <<>>

\* _RecursiveWildcardSelector._iterate_directories: parent, then the
\* directories under each of its child directories.
RECURSIVE _iterate_directories(_, _)
RECURSIVE IterateEach(_, _)
_iterate_directories(t, parent) ==
    <<parent>> \o
    IterateEach(t, SelectSeq(scandir(t, parent), LAMBDA c : is_dir(t, c)))

IterateEach(t, dirs) ==
    IF dirs = <<>> THEN <<>>
    ELSE _iterate_directories(t, Head(dirs)) \o IterateEach(t, Tail(dirs))

\* s without the elements that occurred before in it.
RECURSIVE Dedup(_)
Dedup(s) ==
    IF s = <<>> THEN <<>>
    ELSE IF \E i \in 1..(Len(s) - 1) : s[i] = s[Len(s)]
    THEN Dedup(SubSeq(s, 1, Len(s) - 1))
    ELSE Append(Dedup(SubSeq(s, 1, Len(s) - 1)), s[Len(s)])

\* What the selector made for the parts yields from parent: parent itself
\* when no part is left (or the empty one is), else what its successor
\* yields from each path it selects.
RECURSIVE _select_from(_, _, _)
RECURSIVE SelectEach(_, _, _)
_select_from(t, parts, parent) ==
    IF parts = <<>> THEN <<parent>>
    ELSE IF Head(parts) = <<>> THEN <<parent>>
    ELSE IF Head(parts) = <<"*","*">>
    THEN Dedup(SelectEach(t, Tail(parts), _iterate_directories(t, parent)))
    ELSE IF _is_wildcard_pattern(Head(parts))
    THEN SelectEach(t, Tail(parts),
             WildcardChildren(t, parent, Head(parts), Tail(parts) # <<>>))
    ELSE SelectEach(t, Tail(parts),
             PreciseChild(t, parent, Head(parts), Tail(parts) # <<>>))

SelectEach(t, parts, parents) ==
    IF parents = <<>> THEN <<>>
    ELSE _select_from(t, parts, Head(parents))
         \o SelectEach(t, parts, Tail(parents))

\* path.as_posix() of the path with the parts node.
as_posix(node) ==
    IF node = <<>> THEN <<".">> ELSE Join(node, <<"/">>)

\* What the program finds at the path with the parts node: whether it is a
\* directory, whether it holds a config.yaml, and how loading that ends.
EntryOf(t, node) ==
    [path |-> as_posix(node),
     is_dir |-> is_dir(t, node),
     has_config |-> is_file(t, node \o <<config_yaml>>),
     config |-> IF \E i \in 1..Len(t) : Parts(t[i].path) = node
                THEN t[CHOOSE i \in 1..Len(t) : Parts(t[i].path) = node].config
                ELSE [exc |-> "", v |-> NoConfig]]

\* The paths selected, each with what is found at it.
Entries(t, nodes) ==
    [i \in 1..Len(nodes) |-> EntryOf(t, nodes[i])]

\* What the generator Path(".").glob(pattern) yields in the tree t, in
\* order; nothing when it raises.
glob(pattern, t) ==
    IF GlobError(pattern) # "" THEN <<>>
    ELSE Entries(t, _select_from(t, PatternParts(pattern), <<>>))

\* The mapping given to subproject() for the pack at path, pack_config a
\* dict with both keys.
Subproject(path, pack_config) ==
    [id |-> Name(path), name |-> pack_config.d["title"],
     version |-> pack_config.d["version"], directory |-> path,
     game_version |-> Parts(path)[2]]

InitBuild ==
    /\ pc = "idle"
    /\ args = [base |-> <<>>, version |-> NoneV, title |-> NoneV,
               external |-> FALSE]
    /\ loc = EmptyDict
    /\ last = NoLast
    /\ hashseed \in HashSeeds
    /\ bpc = "start"
    /\ pack_pattern \in PackPatterns
    /\ tree \in Trees
    /\ listing = <<>>
    /\ pack_paths = <<>>
    /\ pack_configs = EmptyDict
    /\ required = <<>>
    /\ logged = <<>>
    /\ error = ""

\* pack_paths = Path(".").glob(pack_pattern): a generator, of which nothing
\* has run yet.
Glob ==
    /\ bpc = "start"
    /\ listing' = glob(pack_pattern, tree)
    /\ pack_paths' = listing'
    /\ bpc' = "validate"
    /\ UNCHANGED <<rl_vars, pack_pattern, tree, pack_configs, required, logged,
                   error>>

\* The body of the first loop for the entry e.
ValidateBody(e) ==
    IF ~e.is_dir
    THEN UNCHANGED <<bpc, pack_configs, error>>
    ELSE IF ~VALID_PATH(e.path)
    THEN bpc' = "raised" /\ error' = "ValueError" /\ UNCHANGED pack_configs
    ELSE IF ~e.has_config
    THEN bpc' = "raised" /\ error' = "FileNotFoundError" /\ UNCHANGED pack_configs
    ELSE IF e.config.exc # ""
    THEN bpc' = "raised" /\ error' = e.config.exc /\ UNCHANGED pack_configs
    ELSE /\ pack_configs' = (e.path :> e.config.v) @@ pack_configs
         /\ UNCHANGED <<bpc, error>>

\* One step of "for pack_path in pack_paths:" of the first loop: the
\* generator raises for a pattern it does not accept; else it yields its
\* next path and the body runs, or it is exhausted and the loop ends.
ValidateLoop ==
    /\ bpc = "validate"
    /\ IF GlobError(pack_pattern) # ""
       THEN /\ bpc' = "raised"
            /\ error' = GlobError(pack_pattern)
            /\ UNCHANGED <<pack_paths, pack_configs>>
       ELSE IF pack_paths = <<>>
       THEN bpc' = "build" /\ UNCHANGED <<pack_paths, pack_configs, error>>
       ELSE pack_paths' = Tail(pack_paths) /\ ValidateBody(Head(pack_paths))
    /\ UNCHANGED <<rl_vars, pack_pattern, tree, listing, required, logged>>

\* The body of the second loop for the entry e: whatever it raises is
\* logged; require_ok is whether ctx.require(subproject(...)) returns.
BuildBody(e, require_ok) ==
    IF e.path \notin DOMAIN pack_configs
    THEN logged' = Append(logged, [path |-> e.path, exc |-> "KeyError"])
         /\ UNCHANGED required
    ELSE IF pack_configs[e.path].t # "dict"
    THEN logged' = Append(logged, [path |-> e.path, exc |-> "TypeError"])
         /\ UNCHANGED required
    ELSE IF {"title", "version"} \ DOMAIN pack_configs[e.path].d # {}
    THEN logged' = Append(logged, [path |-> e.path, exc |-> "KeyError"])
         /\ UNCHANGED required
    ELSE IF ~require_ok
    THEN logged' = Append(logged, [path |-> e.path, exc |-> "Exception"])
         /\ UNCHANGED required
    ELSE required' = Append(required, Subproject(e.path, pack_configs[e.path]))
         /\ UNCHANGED logged

\* One step of "for pack_path in pack_paths:" of the second loop, over the
\* same generator.
BuildLoop ==
    /\ bpc = "build"
    /\ IF pack_paths = <<>>
       THEN bpc' = "done" /\ UNCHANGED <<pack_paths, required, logged>>
       ELSE /\ pack_paths' = Tail(pack_paths)
            /\ \E require_ok \in BOOLEAN : BuildBody(Head(pack_paths), require_ok)
            /\ UNCHANGED bpc
    /\ UNCHANGED <<rl_vars, pack_pattern, tree, listing, pack_configs, error>>

NextBuild ==
    \/ Glob
    \/ ValidateLoop
    \/ BuildLoop

SpecBuild ==
    InitBuild /\ [][NextBuild]_vars

\* ------------------------------------------------ the claims' vocabulary

HasColon(base) ==
    Find(base, ":") # 0

\* s without a leading c: the stripping the documentation describes.
RemovePrefix(s, c) ==
    IF Len(s) > 0 /\ s[1] = c THEN SubSeq(s, 2, Len(s)) ELSE s

\* The namespace of a constructor input.
NamespaceOf(base) ==
    Partition(base, ":")[1]

\* The abstract path of a constructor input that has a ":".
AbstractPathOf(base) ==
    Partition(base, ":")[3]

\* The namespace and the segments of the abstract path, as given.
NamesGiven(base) ==
    <<NamespaceOf(base)>> \o
    (IF HasColon(base) THEN Split(AbstractPathOf(base), "/") ELSE <<>>)

\* The last segment of the abstract path ap.
LastSegment(ap) ==
    Split(ap, "/")[Len(Split(ap, "/"))]

\* An abstract path whose segments are conventional but for the underscore
\* that begins the last one.
IsPrivatePath(ap) ==
    /\ StartsWith(LastSegment(ap), "_")
    /\ CONVENTIONAL_RESOURCE_NAME(RemovePrefix(LastSegment(ap), "_"))
    /\ \A i \in 1..(Len(Split(ap, "/")) - 1) :
           CONVENTIONAL_RESOURCE_NAME(Split(ap, "/")[i])

\* The path segments the private-path rewrite is documented to give.
PrivateSegments(ap) ==
    Split(PRIVATE_PATH, "/") \o
    [Split(ap, "/") EXCEPT ![Len(Split(ap, "/"))] = RemovePrefix(@, "_")]

\* The abstract path "/" is documented to form from the location d.
ExtendedPath(d, suffix) ==
    IF a_abstract_path \in DOMAIN d
    THEN d[a_abstract_path].s \o <<"/">> \o suffix
    ELSE suffix

\* The path segments of the constructed location d, none without a path.
SegmentsOf(d) ==
    IF a_abstract_path \in DOMAIN d THEN d[a_path_segments].l ELSE <<>>

\* namespace[:path] of the constructed location d.
RenderingOf(d) ==
    IF SegmentsOf(d) = <<>> THEN d[a_namespace].s
    ELSE d[a_namespace].s \o <<":">> \o Join(SegmentsOf(d), <<"/">>)

\* ---------------------------------------------------------------- claims

\* C1: a conventional namespace without ":" constructs, and str() of the
\* location returns that namespace; a location has no path exactly when its
\* input had no ":".
C1_NamespaceRendersBack ==
    /\ (pc # "new" /\ ~HasColon(args.base)
            /\ CONVENTIONAL_RESOURCE_NAME(args.base))
        => /\ pc = "live"
           /\ last.op = "str" => (last.exc = "" /\ last.v = StrV(args.base))
    /\ (pc = "live" /\ last.op = "getitem" /\ last.key = <<"p","a","t","h">>)
        => (last.exc = "" /\ (last.v = NoneV <=> ~HasColon(args.base)))

\* C2: a non-external location whose abstract path ends in a segment that
\* begins with "_" has the private prefix's segments, then its own with that
\* underscore stripped, whether the path was given to the constructor or
\* formed by "/".
C2_PrivatePathRewritten ==
    /\ (pc # "new" /\ ~args.external /\ HasColon(args.base)
            /\ CONVENTIONAL_RESOURCE_NAME(NamespaceOf(args.base))
            /\ IsPrivatePath(AbstractPathOf(args.base)))
        => /\ pc = "live"
           /\ loc[a_path_segments] =
                  TupleV(PrivateSegments(AbstractPathOf(args.base)))
           /\ last.op = "str" =>
                  last.v = StrV(NamespaceOf(args.base) \o <<":">> \o
                      Join(PrivateSegments(AbstractPathOf(args.base)), <<"/">>))
    /\ (pc = "live" /\ ~args.external /\ last.op = "truediv"
            /\ IsPrivatePath(ExtendedPath(loc, last.key)))
        => /\ last.exc = ""
           /\ last.v.t = "ResourceLocation"
           /\ last.v.o[a_path_segments] =
                  TupleV(PrivateSegments(ExtendedPath(loc, last.key)))

\* C3: loc / s is the location constructed from namespace ":" path, path
\* being loc's abstract path, "/" and s, or s alone when loc has no path,
\* with loc's external flag (and fails as that construction fails).
C3_ExtensionConstructs ==
    (pc = "live" /\ last.op = "truediv")
        => LET new == __init__(loc[a_namespace].s \o <<":">> \o
                               ExtendedPath(loc, last.key),
                               NoneV, NoneV, args.external)
           IN  IF new.exc # "" THEN last.exc = new.exc
               ELSE /\ last.exc = ""
                    /\ last.v.t = "ResourceLocation"
                    /\ last.v.o = new.self

\* The permissive grammar as documented: one or more of the lowercase
\* letters, the digits, "_", "." and "-", and nothing else.
InPermissiveGrammar(name) ==
    IsValidBody(name)

\* The conventional grammar as documented: groups of lowercase letters and
\* digits separated by single underscores, and nothing else.
InConventionalGrammar(name) ==
    IsConventionalBody(name)

\* C4: construction fails, with the invalid-name error, exactly when the
\* namespace or a segment of the abstract path as given is outside the
\* permissive grammar, or outside the conventional one while external is
\* false.
C4_FailsIffNameInvalid ==
    pc # "new"
        => /\ pc = "failed" <=>
                \E i \in 1..Len(NamesGiven(args.base)) :
                    \/ ~InPermissiveGrammar(NamesGiven(args.base)[i])
                    \/ /\ ~InConventionalGrammar(NamesGiven(args.base)[i])
                       /\ ~args.external
           /\ pc = "failed" => last.exc = "ValueError"

\* C5: an external location whose names are in the permissive grammar is
\* valid, and its path segments are its abstract path split on "/": no
\* private prefix, a leading underscore of the last segment kept; it renders
\* as the input.
C5_ExternalSkipsRewrite ==
    (pc # "new" /\ args.external /\ HasColon(args.base)
        /\ \A i \in 1..Len(NamesGiven(args.base)) :
               VALID_RESOURCE_NAME(NamesGiven(args.base)[i]))
        => /\ pc = "live"
           /\ loc[a_path_segments] =
                  TupleV(Split(AbstractPathOf(args.base), "/"))
           /\ last.op = "str" => (last.exc = "" /\ last.v = StrV(args.base))
           /\ (last.op = "getitem" /\ last.key = <<"p","a","t","h","_","s","e","g","m","e","n","t","s">>)
                  => last.v = TupleV(Split(AbstractPathOf(args.base), "/"))

\* ResourceLocation("ns:api/_test", external=True) rendered.
C5_Witness ==
    /\ pc = "live"
    /\ args.external
    /\ args.base = <<"n","s",":","a","p","i","/","_","t","e","s","t">>
    /\ last.op = "str"
    /\ last.exc = ""
    /\ last.v = StrV(<<"n","s",":","a","p","i","/","_","t","e","s","t">>)

\* C6: a == b exactly when the renderings are equal, and then the hashes are
\* equal.
C6_EqualIffSameRendering ==
    (pc = "live" /\ last.op = "eq")
        => /\ last.exc = ""
           /\ last.v.t = "bool"
           /\ last.v.b <=> RenderingOf(loc) = RenderingOf(last.other)
           /\ last.v.b =>
                  /\ __hash__(hashseed, loc).exc = ""
                  /\ __hash__(hashseed, last.other).exc = ""
                  /\ __hash__(hashseed, loc).v = __hash__(hashseed, last.other).v

\* C7: attribute-style lookup of a conventional key returns the namespace,
\* the path segments and the key joined by ".".
C7_SymbolProjection ==
    (pc = "live" /\ last.op = "getattr"
        /\ CONVENTIONAL_RESOURCE_NAME(last.key))
        => /\ last.exc = ""
           /\ last.v = StrV(Join(<<loc[a_namespace].s>> \o SegmentsOf(loc)
                                 \o <<last.key>>, <<".">>))

\* C8: bracket-style lookup of each of the seven field names returns the
\* component, never an error.
C8_FieldLookup ==
    (pc = "live" /\ last.op = "getitem")
        => /\ last.exc = ""
           /\ last.key = <<"n","a","m","e","s","p","a","c","e">> => last.v = StrV(NamespaceOf(args.base))
           /\ last.key = a_external => last.v = BoolV(args.external)
           /\ last.key = a_title => last.v = args.title
           /\ last.key = a_version => last.v = args.version
           /\ last.key = <<"p","a","t","h">> =>
                  last.v = (IF SegmentsOf(loc) = <<>> THEN NoneV
                            ELSE StrV(Join(SegmentsOf(loc), <<"/">>)))

\* The entry e is a directory at a conventional path, with a config.yaml
\* that loads as a mapping with a title and a version.
WellFormed(e) ==
    /\ e.is_dir
    /\ VALID_PATH(e.path)
    /\ e.has_config
    /\ e.config.exc = ""
    /\ e.config.v.t = "dict"
    /\ {"title", "version"} \subseteq DOMAIN e.config.v.d

\* The failures of the run are of the kinds C10 names: the pattern is one
\* glob accepts, and every config.yaml loads as a mapping.
NamedFailuresOnly ==
    /\ GlobError(pack_pattern) = ""
    /\ \A i \in 1..Len(listing) :
           (listing[i].is_dir /\ listing[i].has_config)
               => (listing[i].config.exc = "" /\ listing[i].config.v.t = "dict")

\* The sub-builds handed to ctx.require for the entry e.
RequiredFor(e) ==
    {j \in 1..Len(required) : required[j].directory = e.path}

\* The entry e was registered once, under its directory name and with its
\* config's title and version.
RegisteredOnce(e) ==
    /\ Cardinality(RequiredFor(e)) = 1
    /\ \A j \in RequiredFor(e) :
           /\ required[j].id = Name(e.path)
           /\ required[j].name = e.config.v.d["title"]
           /\ required[j].version = e.config.v.d["version"]

\* C9: when every matched directory is well formed, each has been
\* registered exactly once when beet_default returns.
C9_EachPackRegisteredOnce ==
    (bpc = "done"
        /\ \A i \in 1..Len(listing) : listing[i].is_dir => WellFormed(listing[i]))
        => \A i \in 1..Len(listing) :
               listing[i].is_dir => RegisteredOnce(listing[i])

\* C10: when beet_default ends a run whose failures are of the kinds named,
\* no exception has left it, every matched directory that is not well
\* formed is logged, and every one that is well formed is registered or,
\* ctx.require having raised for it, logged.
C10_FailureDoesNotAbortOthers ==
    (bpc \in {"done", "raised"} /\ NamedFailuresOnly)
        => /\ error = ""
           /\ \A i \in 1..Len(listing) :
                  listing[i].is_dir =>
                      IF WellFormed(listing[i])
                      THEN \/ RegisteredOnce(listing[i])
                           \/ \E j \in 1..Len(logged) :
                                  logged[j].path = listing[i].path
                      ELSE \E j \in 1..Len(logged) :
                               logged[j].path = listing[i].path

====
